---- MODULE Spec2Model ----
(***************************************************************************)
(* The credit ledger, report registry, bounty and download handlers of the *)
(* marketplace server (src/server/routes.ts over src/server/storage.ts),   *)
(* as a state machine.  Every await of a storage call in a handler is one  *)
(* atomic step, so concurrent requests interleave between storage calls    *)
(* exactly as the handlers do on the event loop over a shared database.    *)
(***************************************************************************)
EXTENDS Integers, Sequences, FiniteSets, TLC

\* ------------------------------------------------------------------ bounds
MaxReports == 2
MaxDownloads == 2
MaxLedger == 2
MaxEntries == 3
MaxBounties == 2

\* --------------------------------------------------------- CREDIT_VALUES
SIGNUP_BONUS == 50
UPLOAD_REWARD == 10
DOWNLOAD_COST == 5
MIN_BOUNTY_STAKE == 5

\* ------------------------------------------------------------------ inputs
\* the requests the server is handling at once
Procs == {1, 2}
Users == {"u1", "u2", "u3"}
NoUser == "none"
\* the users whose requests the whole-server specification draws
SomeUsers == {"u1", "u2"}

\* file.buffer of an upload, and its sha256 digest (distinct bytes, distinct digests)
Contents == {"bytes1", "bytes2"}
sha256(buffer) == IF buffer = "bytes1" THEN "hash1" ELSE "hash2"

\* what the analysis provider does with a request: it answers JSON, answers
\* without content, rejects, or answers text that JSON.parse refuses
ProviderOutcomes == {"json", "empty", "throws", "unparsable"}
\* the provider at its best, for the specifications that are not about analysis
SomeOutcomes == {"json"}

\* analyzeReport with its catch rethrowing instead of returning the fallback
analyzeReportRethrowing(outcome) ==
  CASE outcome = "json" -> "parsed"
    [] outcome = "empty" -> "defaults"
    [] OTHER -> "thrown"

\* analyzeReport: the object it resolves to.  A rejected call and a JSON.parse
\* error both land in its catch, which returns one fixed object; an answer
\* without content parses as {} and every field takes its default.
analyzeReport(outcome) ==
  CASE outcome = "json" -> "parsed"
    [] outcome = "empty" -> "defaults"
    [] OTHER -> "fallback"

\* file.originalname of an upload: "m.pdf", "M_a.pdf", ".pdf"
FileNames ==
  { <<"m", ".", "p", "d", "f">>,
    <<"M", "_", "a", ".", "p", "d", "f">>,
    <<".", "p", "d", "f">> }

\* req.body.propertyAddress of a bounty request: "", "m", "M a"
BountyAddresses == { <<>>, <<"m">>, <<"M", " ", "a">> }

\* req.body.stakedCredits of a bounty request (0 stands for an absent field)
StakeInputs == {0, 3, 45}

\* ------------------------------------------------------- string helpers
UnknownAddress ==
  <<"U","n","k","n","o","w","n"," ","A","d","d","r","e","s","s">>

\* s with the first occurrence of pat removed: String.replace(pat, '')
RECURSIVE RemoveFirst(_, _)
RemoveFirst(s, pat) ==
  IF Len(s) < Len(pat) THEN s
  ELSE IF SubSeq(s, 1, Len(pat)) = pat THEN SubSeq(s, Len(pat) + 1, Len(s))
  ELSE <<Head(s)>> \o RemoveFirst(Tail(s), pat)

\* String.replace(/_/g, ' ')
UnderscoresToSpaces(s) == [i \in 1..Len(s) |-> IF s[i] = "_" THEN " " ELSE s[i]]

\* routes.ts: file.originalname.replace('.pdf','').replace(/_/g,' ') || "Unknown Address"
propertyAddressOf(originalname) ==
  LET a == UnderscoresToSpaces(RemoveFirst(originalname, <<".", "p", "d", "f">>))
  IN  IF a = <<>> THEN UnknownAddress ELSE a

LowerChar(c) ==
  CASE c = "M" -> "m"
    [] c = "U" -> "u"
    [] c = "A" -> "a"
    [] OTHER -> c

Lower(s) == [i \in 1..Len(s) |-> LowerChar(s[i])]

IsSubstring(pat, s) ==
  \E i \in 0..(Len(s) - Len(pat)) : SubSeq(s, i + 1, i + Len(pat)) = pat

\* column ILIKE '%pat%' for a pattern holding no wildcard characters
ilike(column, pat) == IsSubstring(Lower(pat), Lower(column))

\* ------------------------------------------------------------------- state
VARIABLES
  users,               \* the users table of registration: the ids of its rows
  reports,             \* the reports table: a set of rows
  nextReportId,        \* the serial of reports.id
  creditTransactions,  \* the credit_transactions table, in id order
  bounties,            \* the bounties table, in id order (rows are never deleted)
  downloads,           \* the downloads table, in id order
  clock,               \* the wall clock read by new Date()
  proc                 \* the request each handler slot is serving

vars ==
  <<users, reports, nextReportId, creditTransactions, bounties, downloads, clock, proc>>

Idle == [op |-> "none", pc |-> "idle", userId |-> NoUser, reportId |-> 0,
         bountyId |-> 0, amount |-> 0, address |-> <<>>, fileHash |-> "",
         provider |-> "none", analysis |-> "none", owns |-> FALSE,
         result |-> "none"]

Init ==
  /\ reports = {}
  /\ nextReportId = 1
  /\ creditTransactions = <<>>
  /\ bounties = <<>>
  /\ downloads = <<>>
  /\ clock = 0
  /\ users = {}
  /\ proc = [p \in Procs |-> Idle]


\* ---------------------------------------------------------- storage layer
\* SUM(amount) of SQL: NULL over no rows
RECURSIVE SumAmounts(_)
SumAmounts(rows) ==
  IF rows = <<>> THEN 0 ELSE Head(rows).amount + SumAmounts(Tail(rows))

SqlSum(rows) ==
  IF rows = <<>> THEN [isNull |-> TRUE, value |-> 0]
  ELSE [isNull |-> FALSE, value |-> SumAmounts(rows)]

COALESCE(x, dflt) == IF x.isNull THEN dflt ELSE x.value

RECURSIVE Reverse(_)
Reverse(s) == IF s = <<>> THEN <<>> ELSE Reverse(Tail(s)) \o <<Head(s)>>

TxOfUser(rows, userId) == SelectSeq(rows, LAMBDA tx : tx.userId = userId)

\* getCreditBalance with its WHERE user_id = ... lost: the sum of every row
getCreditBalanceOfAllRows(userId) ==
  LET total == COALESCE(SqlSum(creditTransactions), 0)
  IN  IF total # 0 THEN total ELSE 0

\* getCreditBalance summing the credits only
getCreditBalanceOfCredits(userId) ==
  SumAmounts(SelectSeq(TxOfUser(creditTransactions, userId), LAMBDA tx : tx.amount > 0))

\* storage.getCreditBalance
getCreditBalance(userId) ==
  LET total == COALESCE(SqlSum(TxOfUser(creditTransactions, userId)), 0)
  IN  IF total # 0 THEN total ELSE 0

\* storage.getCreditTransactions: the user's rows, newest first
getCreditTransactions(userId) == Reverse(TxOfUser(creditTransactions, userId))

\* Math.abs left out of the spent sum
AbsLeftOut(n) == n

\* Math.abs
Abs(n) == IF n < 0 THEN -n ELSE n

RECURSIVE StatsLoop(_, _, _)
StatsLoop(transactions, earned, spent) ==
  IF transactions = <<>> THEN [earned |-> earned, spent |-> spent]
  ELSE LET tx == Head(transactions)
       IN  IF tx.amount > 0
           THEN StatsLoop(Tail(transactions), earned + tx.amount, spent)
           ELSE StatsLoop(Tail(transactions), earned, spent + Abs(tx.amount))

\* storage.getCreditStats
getCreditStats(userId) == StatsLoop(getCreditTransactions(userId), 0, 0)

\* a credit_transactions row; reportId / bountyId 0 stand for NULL
Tx(userId, amount, type, reportId, bountyId) ==
  [userId |-> userId, amount |-> amount, type |-> type,
   reportId |-> reportId, bountyId |-> bountyId]

\* createCreditTransaction as an upsert that keeps only the newest row
createCreditTransactionOverwriting(tx) == creditTransactions' = <<tx>>

\* storage.createCreditTransaction
createCreditTransaction(tx) == creditTransactions' = Append(creditTransactions, tx)

\* storage.getReport / storage.getReportByHash: the rows selected
getReport(id) == {r \in reports : r.id = id}
getReportByHash(hash) == {r \in reports : r.fileHash = hash}

\* reports.file_hash without its unique(): every insert goes through
fileHashUnconstrained(hash) == TRUE

\* reports.file_hash is declared unique(): the insert of a second row throws
fileHashUnique(hash) == \A r \in reports : r.fileHash # hash

\* storage.createReport
createReport(userId, address, hash, analysis) ==
  /\ reports' = reports \cup
       {[id |-> nextReportId, userId |-> userId, propertyAddress |-> address,
         fileHash |-> hash, analysis |-> analysis, downloadCount |-> 0]}
  /\ nextReportId' = nextReportId + 1

\* a delete that takes the rows of lower id with it
deleteReportsUpTo(id) == reports' = {r \in reports : r.id > id}

\* storage.deleteReport: DELETE ... WHERE id = id
deleteReport(id) == reports' = {r \in reports : r.id # id}

\* incrementDownloadCount leaving the counter as it is
incrementDownloadCountOfNoRow(id) == UNCHANGED reports

\* storage.incrementDownloadCount
incrementDownloadCount(id) ==
  reports' = {IF r.id = id THEN [r EXCEPT !.downloadCount = @ + 1] ELSE r : r \in reports}

\* storage.getBounty: the ids selected
getBounty(id) == {b \in DOMAIN bounties : b = id}

\* storage.getBountyByAddress: the open rows whose address ILIKE %address%;
\* the query has no ORDER BY, so its first row is any one of them
getBountyByAddress(address) ==
  {b \in DOMAIN bounties :
     bounties[b].status = "open" /\ ilike(bounties[b].propertyAddress, address)}

\* storage.createBounty
createBounty(userId, address, stake) ==
  bounties' = Append(bounties,
    [userId |-> userId, propertyAddress |-> address, stakedCredits |-> stake,
     status |-> "open", fulfilledByUserId |-> NoUser, fulfilledReportId |-> 0,
     fulfilledAt |-> 0])

\* storage.fulfillBounty: UPDATE ... WHERE id = id
fulfillBounty(id, fulfilledByUserId, reportId) ==
  /\ clock' = clock + 1
  /\ bounties' = [b \in DOMAIN bounties |->
       IF b = id
       THEN [bounties[b] EXCEPT !.status = "fulfilled",
                                !.fulfilledByUserId = fulfilledByUserId,
                                !.fulfilledReportId = reportId,
                                !.fulfilledAt = clock + 1]
       ELSE bounties[b]]

\* cancelBounty with its UPDATE matching no row
cancelBountyMatchingNoRow(id) == UNCHANGED bounties

\* storage.cancelBounty: UPDATE ... WHERE id = id
cancelBounty(id) ==
  bounties' = [b \in DOMAIN bounties |->
    IF b = id THEN [bounties[b] EXCEPT !.status = "cancelled"] ELSE bounties[b]]

\* hasUserDownloaded finding no row, whatever the table holds
hasUserDownloadedNever(userId, reportId) == FALSE

\* storage.hasUserDownloaded
hasUserDownloaded(userId, reportId) ==
  \E i \in DOMAIN downloads :
    downloads[i].userId = userId /\ downloads[i].reportId = reportId

\* storage.createDownload
createDownload(userId, reportId, creditSpent) ==
  downloads' = Append(downloads,
    [userId |-> userId, reportId |-> reportId, creditSpent |-> creditSpent])

\* ------------------------------------------------------- request plumbing
\* a request is given the first slot that is free
Free(p) == proc[p].pc = "idle" /\ \A q \in Procs : q < p => proc[q].pc # "idle"

\* the handler has chosen its answer (res.json / res.status(..).json)
Finish(p, result) == proc' = [proc EXCEPT ![p].pc = "done", ![p].result = result]

\* the response is on the wire and the handler returns
Respond(p) ==
  /\ proc[p].pc = "done"
  /\ proc' = [proc EXCEPT ![p] = Idle]
  /\ UNCHANGED <<users, reports, nextReportId, creditTransactions, bounties, downloads, clock>>

Goto(p, pc) == proc' = [proc EXCEPT ![p].pc = pc]


Start(op, pc, userId) ==
  [Idle EXCEPT !.op = op, !.pc = pc, !.userId = userId]

\* --------------------------------------------- POST /api/reports/upload
\* the request arrives; the digest and the address are functions of the file
UploadBegin(p, userId, originalname, buffer) ==
  /\ Free(p)
  /\ proc' = [proc EXCEPT ![p] =
       [Start("upload", "getReportByHash", userId)
          EXCEPT !.address = propertyAddressOf(originalname),
                 !.fileHash = sha256(buffer)]]
  /\ UNCHANGED <<users, reports, nextReportId, creditTransactions, bounties, downloads, clock>>

\* if (!file) return 400
UploadNoFile(p, userId) ==
  /\ Free(p)
  /\ proc' = [proc EXCEPT ![p] =
       [Start("upload", "done", userId) EXCEPT !.result = "no_file"]]
  /\ UNCHANGED <<users, reports, nextReportId, creditTransactions, bounties, downloads, clock>>

UploadGetReportByHash(p) ==
  /\ proc[p].op = "upload" /\ proc[p].pc = "getReportByHash"
  /\ IF getReportByHash(proc[p].fileHash) # {}
     THEN Finish(p, "duplicate")
     ELSE Goto(p, "analyzeReport")
  /\ UNCHANGED <<users, reports, nextReportId, creditTransactions, bounties, downloads, clock>>

\* const analysis = await analyzeReport(file.originalname); were it to throw,
\* the handler's catch would answer 500
UploadAnalyzeReport(p, outcome) ==
  /\ proc[p].op = "upload" /\ proc[p].pc = "analyzeReport"
  /\ IF analyzeReport(outcome) = "thrown"
     THEN proc' = [proc EXCEPT ![p].provider = outcome, ![p].pc = "done",
                               ![p].result = "error500"]
     ELSE proc' = [proc EXCEPT ![p].provider = outcome,
                               ![p].analysis = analyzeReport(outcome),
                               ![p].pc = "createReport"]
  /\ UNCHANGED <<users, reports, nextReportId, creditTransactions, bounties, downloads, clock>>

\* the insert; a violated unique constraint throws into the catch (500), and the
\* serial it drew is not given back
UploadCreateReport(p) ==
  /\ proc[p].op = "upload" /\ proc[p].pc = "createReport"
  /\ IF fileHashUnique(proc[p].fileHash)
     THEN /\ createReport(proc[p].userId, proc[p].address, proc[p].fileHash,
                          proc[p].analysis)
          /\ proc' = [proc EXCEPT ![p].reportId = nextReportId, ![p].pc = "rewardTx"]
     ELSE /\ nextReportId' = nextReportId + 1
          /\ UNCHANGED reports
          /\ Finish(p, "error500")
  /\ UNCHANGED <<users, creditTransactions, bounties, downloads, clock>>

UploadRewardTx(p) ==
  /\ proc[p].op = "upload" /\ proc[p].pc = "rewardTx"
  /\ createCreditTransaction(
       Tx(proc[p].userId, UPLOAD_REWARD, "upload", proc[p].reportId, 0))
  /\ Goto(p, "getBountyByAddress")
  /\ UNCHANGED <<users, reports, nextReportId, bounties, downloads, clock>>

\* the requester test left out: any matching bounty is fulfilled
anyUsersBounty(matchingBounty, userId) == TRUE

\* matchingBounty.userId !== userId
otherUsersBounty(matchingBounty, userId) == bounties[matchingBounty].userId # userId

\* matchingBounty && matchingBounty.userId !== userId
UploadGetBountyByAddress(p) ==
  /\ proc[p].op = "upload" /\ proc[p].pc = "getBountyByAddress"
  /\ IF getBountyByAddress(proc[p].address) = {}
     THEN Finish(p, "ok")
     ELSE \E b \in getBountyByAddress(proc[p].address) :
            IF otherUsersBounty(b, proc[p].userId)
            THEN proc' = [proc EXCEPT ![p].bountyId = b,
                                      ![p].amount = bounties[b].stakedCredits,
                                      ![p].pc = "fulfillBounty"]
            ELSE Finish(p, "ok")
  /\ UNCHANGED <<users, reports, nextReportId, creditTransactions, bounties, downloads, clock>>

UploadFulfillBounty(p) ==
  /\ proc[p].op = "upload" /\ proc[p].pc = "fulfillBounty"
  /\ fulfillBounty(proc[p].bountyId, proc[p].userId, proc[p].reportId)
  /\ Goto(p, "bountyTx")
  /\ UNCHANGED <<users, reports, nextReportId, creditTransactions, downloads>>

UploadBountyTx(p) ==
  /\ proc[p].op = "upload" /\ proc[p].pc = "bountyTx"
  /\ createCreditTransaction(
       Tx(proc[p].userId, proc[p].amount, "bounty_earned",
          proc[p].reportId, proc[p].bountyId))
  /\ Finish(p, "ok")
  /\ UNCHANGED <<users, reports, nextReportId, bounties, downloads, clock>>

\* ---------------------------------------- POST /api/reports/:id/download
DownloadBegin(p, userId, reportId) ==
  /\ Free(p)
  /\ proc' = [proc EXCEPT ![p] =
       [Start("download", "getReport", userId) EXCEPT !.reportId = reportId]]
  /\ UNCHANGED <<users, reports, nextReportId, creditTransactions, bounties, downloads, clock>>

DownloadGetReport(p) ==
  /\ proc[p].op = "download" /\ proc[p].pc = "getReport"
  /\ IF getReport(proc[p].reportId) = {}
     THEN Finish(p, "not_found")
     ELSE IF \E r \in getReport(proc[p].reportId) : r.userId = proc[p].userId
          THEN Finish(p, "owner")
          ELSE Goto(p, "hasUserDownloaded")
  /\ UNCHANGED <<users, reports, nextReportId, creditTransactions, bounties, downloads, clock>>

DownloadHasUserDownloaded(p) ==
  /\ proc[p].op = "download" /\ proc[p].pc = "hasUserDownloaded"
  /\ IF hasUserDownloaded(proc[p].userId, proc[p].reportId)
     THEN Finish(p, "already_downloaded")
     ELSE Goto(p, "getCreditBalance")
  /\ UNCHANGED <<users, reports, nextReportId, creditTransactions, bounties, downloads, clock>>

DownloadGetCreditBalance(p) ==
  /\ proc[p].op = "download" /\ proc[p].pc = "getCreditBalance"
  /\ IF getCreditBalance(proc[p].userId) < DOWNLOAD_COST
     THEN Finish(p, "insufficient")
     ELSE Goto(p, "createDownload")
  /\ UNCHANGED <<users, reports, nextReportId, creditTransactions, bounties, downloads, clock>>

DownloadCreateDownload(p) ==
  /\ proc[p].op = "download" /\ proc[p].pc = "createDownload"
  /\ createDownload(proc[p].userId, proc[p].reportId, DOWNLOAD_COST)
  /\ Goto(p, "downloadTx")
  /\ UNCHANGED <<users, reports, nextReportId, creditTransactions, bounties, clock>>

DownloadTx(p) ==
  /\ proc[p].op = "download" /\ proc[p].pc = "downloadTx"
  /\ createCreditTransaction(
       Tx(proc[p].userId, -DOWNLOAD_COST, "download", proc[p].reportId, 0))
  /\ Goto(p, "incrementDownloadCount")
  /\ UNCHANGED <<users, reports, nextReportId, bounties, downloads, clock>>

DownloadIncrementDownloadCount(p) ==
  /\ proc[p].op = "download" /\ proc[p].pc = "incrementDownloadCount"
  /\ incrementDownloadCount(proc[p].reportId)
  /\ Finish(p, "ok")
  /\ UNCHANGED <<users, nextReportId, creditTransactions, bounties, downloads, clock>>

\* ------------------------------------------------ DELETE /api/reports/:id
DeleteBegin(p, userId, reportId) ==
  /\ Free(p)
  /\ proc' = [proc EXCEPT ![p] =
       [Start("delete", "getReport", userId) EXCEPT !.reportId = reportId]]
  /\ UNCHANGED <<users, reports, nextReportId, creditTransactions, bounties, downloads, clock>>

DeleteGetReport(p) ==
  /\ proc[p].op = "delete" /\ proc[p].pc = "getReport"
  /\ IF getReport(proc[p].reportId) = {}
     THEN Finish(p, "not_found")
     ELSE IF \E r \in getReport(proc[p].reportId) : r.userId # proc[p].userId
          THEN Finish(p, "not_authorized")
          ELSE Goto(p, "deleteReport")
  /\ UNCHANGED <<users, reports, nextReportId, creditTransactions, bounties, downloads, clock>>

DeleteDeleteReport(p) ==
  /\ proc[p].op = "delete" /\ proc[p].pc = "deleteReport"
  /\ deleteReport(proc[p].reportId)
  /\ Finish(p, "ok")
  /\ UNCHANGED <<users, nextReportId, creditTransactions, bounties, downloads, clock>>


\* ------------------------------------------- GET /api/reports/:id/analysis
\* the ownership test passing for every user
ownsAnyReport(report, userId) == TRUE

\* report.userId === userId
owns(report, userId) == report.userId = userId

AnalysisBegin(p, userId, reportId) ==
  /\ Free(p)
  /\ proc' = [proc EXCEPT ![p] =
       [Start("analysis", "getReport", userId) EXCEPT !.reportId = reportId]]
  /\ UNCHANGED <<users, reports, nextReportId, creditTransactions, bounties, downloads, clock>>

\* const report = await storage.getReport(reportId); 404 without a row
AnalysisGetReport(p) ==
  /\ proc[p].op = "analysis" /\ proc[p].pc = "getReport"
  /\ IF getReport(proc[p].reportId) = {}
     THEN Finish(p, "not_found")
     ELSE \E report \in getReport(proc[p].reportId) :
            proc' = [proc EXCEPT ![p].owns = owns(report, proc[p].userId),
                                 ![p].analysis = report.analysis,
                                 ![p].pc = "hasUserDownloaded"]
  /\ UNCHANGED <<users, reports, nextReportId, creditTransactions, bounties, downloads, clock>>

\* 403 unless owns || hasDownloaded; 404 when analysisJson is null; else the
\* analysis read with the report
AnalysisHasUserDownloaded(p) ==
  /\ proc[p].op = "analysis" /\ proc[p].pc = "hasUserDownloaded"
  /\ IF ~proc[p].owns /\ ~hasUserDownloaded(proc[p].userId, proc[p].reportId)
     THEN Finish(p, "access_denied")
     ELSE IF proc[p].analysis = "none"
          THEN Finish(p, "no_analysis")
          ELSE Finish(p, "analysis")
  /\ UNCHANGED <<users, reports, nextReportId, creditTransactions, bounties, downloads, clock>>

\* ------------------------------------------------------ POST /api/bounties
Max(a, b) == IF a > b THEN a ELSE b

\* the requested stake taken as it comes
stakeAmountAsRequested(stakedCredits) == stakedCredits

\* Math.max(MIN_BOUNTY_STAKE, stakedCredits || MIN_BOUNTY_STAKE)
stakeAmountOf(stakedCredits) ==
  Max(MIN_BOUNTY_STAKE, IF stakedCredits # 0 THEN stakedCredits ELSE MIN_BOUNTY_STAKE)

BountyBegin(p, userId, propertyAddress, stakedCredits) ==
  /\ Free(p)
  /\ propertyAddress # <<>>
  /\ proc' = [proc EXCEPT ![p] =
       [Start("bounty", "getCreditBalance", userId)
          EXCEPT !.address = propertyAddress,
                 !.amount = stakeAmountOf(stakedCredits)]]
  /\ UNCHANGED <<users, reports, nextReportId, creditTransactions, bounties, downloads, clock>>

\* if (!propertyAddress) return 400
BountyNoAddress(p, userId, propertyAddress) ==
  /\ Free(p)
  /\ propertyAddress = <<>>
  /\ proc' = [proc EXCEPT ![p] =
       [Start("bounty", "done", userId) EXCEPT !.result = "address_required"]]
  /\ UNCHANGED <<users, reports, nextReportId, creditTransactions, bounties, downloads, clock>>

BountyGetCreditBalance(p) ==
  /\ proc[p].op = "bounty" /\ proc[p].pc = "getCreditBalance"
  /\ IF getCreditBalance(proc[p].userId) < proc[p].amount
     THEN Finish(p, "insufficient")
     ELSE Goto(p, "createBounty")
  /\ UNCHANGED <<users, reports, nextReportId, creditTransactions, bounties, downloads, clock>>

BountyCreateBounty(p) ==
  /\ proc[p].op = "bounty" /\ proc[p].pc = "createBounty"
  /\ createBounty(proc[p].userId, proc[p].address, proc[p].amount)
  /\ proc' = [proc EXCEPT ![p].bountyId = Len(bounties) + 1, ![p].pc = "stakeTx"]
  /\ UNCHANGED <<users, reports, nextReportId, creditTransactions, downloads, clock>>

BountyStakeTx(p) ==
  /\ proc[p].op = "bounty" /\ proc[p].pc = "stakeTx"
  /\ createCreditTransaction(
       Tx(proc[p].userId, -proc[p].amount, "bounty_stake", 0, proc[p].bountyId))
  /\ Finish(p, "ok")
  /\ UNCHANGED <<users, reports, nextReportId, bounties, downloads, clock>>

\* ------------------------------------------------ DELETE /api/bounties/:id
CancelBegin(p, userId, bountyId) ==
  /\ Free(p)
  /\ proc' = [proc EXCEPT ![p] =
       [Start("cancel", "getBounty", userId) EXCEPT !.bountyId = bountyId]]
  /\ UNCHANGED <<users, reports, nextReportId, creditTransactions, bounties, downloads, clock>>

\* the requester test letting everyone through
notRequesterNever(bountyId, userId) == FALSE

\* bounty.userId !== userId
notRequester(bountyId, userId) == bounties[bountyId].userId # userId

CancelGetBounty(p) ==
  /\ proc[p].op = "cancel" /\ proc[p].pc = "getBounty"
  /\ IF getBounty(proc[p].bountyId) = {}
     THEN Finish(p, "not_found")
     ELSE IF notRequester(proc[p].bountyId, proc[p].userId)
          THEN Finish(p, "not_authorized")
          ELSE IF bounties[proc[p].bountyId].status # "open"
               THEN Finish(p, "not_open")
               ELSE proc' = [proc EXCEPT
                      ![p].amount = bounties[proc[p].bountyId].stakedCredits,
                      ![p].pc = "cancelBounty"]
  /\ UNCHANGED <<users, reports, nextReportId, creditTransactions, bounties, downloads, clock>>

CancelCancelBounty(p) ==
  /\ proc[p].op = "cancel" /\ proc[p].pc = "cancelBounty"
  /\ cancelBounty(proc[p].bountyId)
  /\ Goto(p, "refundTx")
  /\ UNCHANGED <<users, reports, nextReportId, creditTransactions, downloads, clock>>

CancelRefundTx(p) ==
  /\ proc[p].op = "cancel" /\ proc[p].pc = "refundTx"
  /\ createCreditTransaction(
       Tx(proc[p].userId, proc[p].amount, "bounty_stake", 0, proc[p].bountyId))
  /\ Finish(p, "ok")
  /\ UNCHANGED <<users, reports, nextReportId, bounties, downloads, clock>>

\* -------------------------------------------------- POST /api/signup-bonus
SignupBegin(p, userId) ==
  /\ Free(p)
  /\ proc' = [proc EXCEPT ![p] = Start("signup", "getCreditTransactions", userId)]
  /\ UNCHANGED <<users, reports, nextReportId, creditTransactions, bounties, downloads, clock>>

SignupGetCreditTransactions(p) ==
  /\ proc[p].op = "signup" /\ proc[p].pc = "getCreditTransactions"
  /\ IF Len(getCreditTransactions(proc[p].userId)) > 0
     THEN Finish(p, "already_claimed")
     ELSE Goto(p, "signupTx")
  /\ UNCHANGED <<users, reports, nextReportId, creditTransactions, bounties, downloads, clock>>

SignupTx(p) ==
  /\ proc[p].op = "signup" /\ proc[p].pc = "signupTx"
  /\ createCreditTransaction(Tx(proc[p].userId, SIGNUP_BONUS, "signup_bonus", 0, 0))
  /\ Finish(p, "ok")
  /\ UNCHANGED <<users, reports, nextReportId, bounties, downloads, clock>>

\* ------------------------------------------------- POST /api/auth/register
\* storage.createUser: users.email is unique, one row per email; the id of the
\* row stands for the email here
createUser(userId) == users' = users \cup {userId}

RegisterBegin(p, userId) ==
  /\ Free(p)
  /\ proc' = [proc EXCEPT ![p] = Start("register", "getUserByEmail", userId)]
  /\ UNCHANGED <<users, reports, nextReportId, creditTransactions, bounties, downloads, clock>>

\* if (existingUser) return 400
RegisterGetUserByEmail(p) ==
  /\ proc[p].op = "register" /\ proc[p].pc = "getUserByEmail"
  /\ IF proc[p].userId \in users
     THEN Finish(p, "email_registered")
     ELSE Goto(p, "createUser")
  /\ UNCHANGED <<users, reports, nextReportId, creditTransactions, bounties, downloads, clock>>

\* the insert; a second row for the email violates the unique constraint and
\* throws into the catch (500)
RegisterCreateUser(p) ==
  /\ proc[p].op = "register" /\ proc[p].pc = "createUser"
  /\ IF proc[p].userId \notin users
     THEN createUser(proc[p].userId) /\ Goto(p, "registerTx")
     ELSE UNCHANGED users /\ Finish(p, "error500")
  /\ UNCHANGED <<reports, nextReportId, creditTransactions, bounties, downloads, clock>>

\* the welcome bonus, then req.session.userId = user.id
RegisterTx(p) ==
  /\ proc[p].op = "register" /\ proc[p].pc = "registerTx"
  /\ createCreditTransaction(Tx(proc[p].userId, SIGNUP_BONUS, "signup_bonus", 0, 0))
  /\ Finish(p, "ok")
  /\ UNCHANGED <<users, reports, nextReportId, bounties, downloads, clock>>

\* ------------------------------------------------------------ the server
BeginUpload(p, U, N) ==
  \/ \E u \in U, n \in N, c \in Contents : UploadBegin(p, u, n, c)
  \/ \E u \in U : UploadNoFile(p, u)

BeginDownload(p, U) == \E u \in U, r \in 1..nextReportId : DownloadBegin(p, u, r)

BeginDelete(p, U) == \E u \in U, r \in 1..nextReportId : DeleteBegin(p, u, r)

BeginAnalysis(p, U) == \E u \in U, r \in 1..nextReportId : AnalysisBegin(p, u, r)

StepAnalysis(p) ==
  \/ AnalysisGetReport(p)
  \/ AnalysisHasUserDownloaded(p)

BeginBounty(p, U) ==
  \/ \E u \in U, a \in BountyAddresses, s \in StakeInputs : BountyBegin(p, u, a, s)
  \/ \E u \in U, a \in BountyAddresses : BountyNoAddress(p, u, a)

BeginCancel(p, U) == \E u \in U, b \in 1..(Len(bounties) + 1) : CancelBegin(p, u, b)

BeginSignup(p, U) == \E u \in U : SignupBegin(p, u)

BeginRegister(p, U) == \E u \in U : RegisterBegin(p, u)

StepRegister(p) ==
  \/ RegisterGetUserByEmail(p)
  \/ RegisterCreateUser(p)
  \/ RegisterTx(p)

StepUpload(p) ==
  \/ UploadGetReportByHash(p)
  \/ UploadCreateReport(p)
  \/ UploadRewardTx(p)
  \/ UploadGetBountyByAddress(p)
  \/ UploadFulfillBounty(p)
  \/ UploadBountyTx(p)

\* the analysis step of an upload, the provider's outcome drawn from O
StepAnalyze(p, O) == \E o \in O : UploadAnalyzeReport(p, o)

StepDownload(p) ==
  \/ DownloadGetReport(p)
  \/ DownloadHasUserDownloaded(p)
  \/ DownloadGetCreditBalance(p)
  \/ DownloadCreateDownload(p)
  \/ DownloadTx(p)
  \/ DownloadIncrementDownloadCount(p)

StepDelete(p) ==
  \/ DeleteGetReport(p)
  \/ DeleteDeleteReport(p)

StepBounty(p) ==
  \/ BountyGetCreditBalance(p)
  \/ BountyCreateBounty(p)
  \/ BountyStakeTx(p)

StepCancel(p) ==
  \/ CancelGetBounty(p)
  \/ CancelCancelBounty(p)
  \/ CancelRefundTx(p)

StepSignup(p) ==
  \/ SignupGetCreditTransactions(p)
  \/ SignupTx(p)

Quiescent == \A p \in Procs : proc[p].pc = "idle"

\* The whole server over an empty database.  Requests are accepted while the
\* ledger holds fewer than MaxLedger rows.
Next ==
  \E p \in Procs :
    \/ /\ Len(creditTransactions) < MaxLedger
       /\ \/ BeginUpload(p, SomeUsers, FileNames)
          \/ BeginDownload(p, SomeUsers)
          \/ BeginDelete(p, SomeUsers)
          \/ BeginBounty(p, SomeUsers)
          \/ BeginCancel(p, SomeUsers)
          \/ BeginSignup(p, SomeUsers)
    \/ StepUpload(p)
    \/ StepAnalyze(p, SomeOutcomes)
    \/ StepDownload(p)
    \/ StepDelete(p)
    \/ StepBounty(p)
    \/ StepCancel(p)
    \/ StepSignup(p)
    \/ Respond(p)

Spec == Init /\ [][Next]_vars


\* ------------------------------------------------- uploads against a bounty
\* The database after u1 took the signup bonus and staked the minimum on a
\* bounty for "M a".
InitBounty ==
  /\ reports = {}
  /\ nextReportId = 1
  /\ creditTransactions =
       << Tx("u1", SIGNUP_BONUS, "signup_bonus", 0, 0),
          Tx("u1", -MIN_BOUNTY_STAKE, "bounty_stake", 0, 1) >>
  /\ bounties =
       << [userId |-> "u1", propertyAddress |-> <<"M", " ", "a">>,
           stakedCredits |-> MIN_BOUNTY_STAKE, status |-> "open",
           fulfilledByUserId |-> NoUser, fulfilledReportId |-> 0,
           fulfilledAt |-> 0] >>
  /\ downloads = <<>>
  /\ clock = 0
  /\ users = Users
  /\ proc = [p \in Procs |-> Idle]

\* the file names whose address matches the bounty: "M_a.pdf"
MatchingNames == { <<"M", "_", "a", ".", "p", "d", "f">> }

\* Uploads of matching files by anyone, and cancel requests by u1 (the
\* requester) and u2; requests are accepted while the reports serial has drawn
\* fewer than MaxReports ids.
NextUpload ==
  \E p \in Procs :
    \/ /\ nextReportId <= MaxReports
       /\ \/ BeginUpload(p, Users, MatchingNames)
          \/ BeginCancel(p, {"u1", "u2"})
    \/ StepUpload(p)
    \/ StepAnalyze(p, SomeOutcomes)
    \/ StepCancel(p)
    \/ Respond(p)

SpecUpload == InitBounty /\ [][NextUpload]_vars

\* ---------------------------------------------------------- storage faults
\* a storage call rejects (connection lost, timeout): the handler's catch
\* answers 500 and nothing after the call runs
Fail(p) ==
  /\ proc[p].pc \notin {"idle", "done"}
  /\ Finish(p, "error500")
  /\ UNCHANGED <<users, reports, nextReportId, creditTransactions, bounties, downloads, clock>>

NextFault ==
  \E p \in Procs :
    \/ /\ nextReportId <= MaxReports
       /\ BeginUpload(p, {"u2", "u3"}, MatchingNames)
    \/ StepUpload(p)
    \/ StepAnalyze(p, SomeOutcomes)
    \/ Fail(p)
    \/ Respond(p)

SpecFault == InitBounty /\ [][NextFault]_vars

\* ------------------------------------------------------------- downloads
\* The database after u1 uploaded "m.pdf" and ".pdf", and u2 then took the
\* signup bonus and staked 45 of it on a bounty for "M a": u1 holds 20 credits,
\* u2 5, u3 none.
InitDownload ==
  /\ reports =
       {[id |-> 1, userId |-> "u1", propertyAddress |-> <<"m">>,
         fileHash |-> "hash1", analysis |-> "parsed", downloadCount |-> 0],
        [id |-> 2, userId |-> "u1", propertyAddress |-> UnknownAddress,
         fileHash |-> "hash2", analysis |-> "parsed", downloadCount |-> 0]}
  /\ nextReportId = 3
  /\ creditTransactions =
       << Tx("u1", UPLOAD_REWARD, "upload", 1, 0),
          Tx("u1", UPLOAD_REWARD, "upload", 2, 0),
          Tx("u2", SIGNUP_BONUS, "signup_bonus", 0, 0),
          Tx("u2", -45, "bounty_stake", 0, 1) >>
  /\ bounties =
       << [userId |-> "u2", propertyAddress |-> <<"M", " ", "a">>,
           stakedCredits |-> 45, status |-> "open",
           fulfilledByUserId |-> NoUser, fulfilledReportId |-> 0,
           fulfilledAt |-> 0] >>
  /\ downloads = <<>>
  /\ clock = 0
  /\ users = Users
  /\ proc = [p \in Procs |-> Idle]

\* Download requests by anyone, accepted while the downloads table holds fewer
\* than MaxDownloads rows.
NextDownload ==
  \E p \in Procs :
    \/ /\ Len(downloads) < MaxDownloads
       /\ BeginDownload(p, Users)
    \/ StepDownload(p)
    \/ Respond(p)

SpecDownload == InitDownload /\ [][NextDownload]_vars

\* Download requests whose storage calls may reject.
NextDownloadFault ==
  \E p \in Procs :
    \/ /\ Len(downloads) < MaxDownloads
       /\ BeginDownload(p, Users)
    \/ StepDownload(p)
    \/ Fail(p)
    \/ Respond(p)

SpecDownloadFault == InitDownload /\ [][NextDownloadFault]_vars

\* ------------------------------------------- downloads by owners and payers
\* The database after u1 uploaded "m.pdf" and u3 ".pdf", u2 took the signup
\* bonus and staked 45 of it on a bounty for "M a", and u3 staked the 10 of the
\* upload reward on a bounty for "m": u1 holds 10 credits, u2 5, u3 none.
InitOwners ==
  /\ reports =
       {[id |-> 1, userId |-> "u1", propertyAddress |-> <<"m">>,
         fileHash |-> "hash1", analysis |-> "parsed", downloadCount |-> 0],
        [id |-> 2, userId |-> "u3", propertyAddress |-> UnknownAddress,
         fileHash |-> "hash2", analysis |-> "parsed", downloadCount |-> 0]}
  /\ nextReportId = 3
  /\ creditTransactions =
       << Tx("u1", UPLOAD_REWARD, "upload", 1, 0),
          Tx("u3", UPLOAD_REWARD, "upload", 2, 0),
          Tx("u2", SIGNUP_BONUS, "signup_bonus", 0, 0),
          Tx("u2", -45, "bounty_stake", 0, 1),
          Tx("u3", -UPLOAD_REWARD, "bounty_stake", 0, 2) >>
  /\ bounties =
       << [userId |-> "u2", propertyAddress |-> <<"M", " ", "a">>,
           stakedCredits |-> 45, status |-> "open",
           fulfilledByUserId |-> NoUser, fulfilledReportId |-> 0,
           fulfilledAt |-> 0],
          [userId |-> "u3", propertyAddress |-> <<"m">>,
           stakedCredits |-> UPLOAD_REWARD, status |-> "open",
           fulfilledByUserId |-> NoUser, fulfilledReportId |-> 0,
           fulfilledAt |-> 0] >>
  /\ downloads = <<>>
  /\ clock = 0
  /\ users = Users
  /\ proc = [p \in Procs |-> Idle]

SpecAccess == InitOwners /\ [][NextDownload]_vars

\* ------------------------------------------------ one request at a time
\* Cancel requests by u1 and u2, further bounties of u1 and matching uploads by
\* u2, each accepted when no other request is in flight; the bounties table
\* takes up to MaxBounties rows and the reports serial draws up to MaxReports ids.
NextSequential ==
  \E p \in Procs :
    \/ /\ Quiescent
       /\ \/ BeginCancel(p, {"u1", "u2"})
          \/ /\ Len(bounties) < MaxBounties
             /\ BeginBounty(p, {"u1"})
          \/ /\ nextReportId <= MaxReports
             /\ BeginUpload(p, {"u2"}, MatchingNames)
    \/ StepCancel(p)
    \/ StepBounty(p)
    \/ StepUpload(p)
    \/ StepAnalyze(p, SomeOutcomes)
    \/ Respond(p)

SpecSequential == InitBounty /\ [][NextSequential]_vars

\* ------------------------------------------------------ address matching
\* The database after u1 took the signup bonus and staked the minimum on a
\* bounty for "m" or for "M a".
InitMatch ==
  \E a \in BountyAddresses \ {<<>>} :
    /\ reports = {}
    /\ nextReportId = 1
    /\ creditTransactions =
         << Tx("u1", SIGNUP_BONUS, "signup_bonus", 0, 0),
            Tx("u1", -MIN_BOUNTY_STAKE, "bounty_stake", 0, 1) >>
    /\ bounties =
         << [userId |-> "u1", propertyAddress |-> a,
             stakedCredits |-> MIN_BOUNTY_STAKE, status |-> "open",
             fulfilledByUserId |-> NoUser, fulfilledReportId |-> 0,
             fulfilledAt |-> 0] >>
    /\ downloads = <<>>
    /\ clock = 0
    /\ users = Users
    /\ proc = [p \in Procs |-> Idle]

\* Uploads of files of every name by u2 and u3.
NextMatch ==
  \E p \in Procs :
    \/ /\ nextReportId <= MaxReports
       /\ BeginUpload(p, {"u2", "u3"}, FileNames)
    \/ StepUpload(p)
    \/ StepAnalyze(p, SomeOutcomes)
    \/ Respond(p)

SpecMatch == InitMatch /\ [][NextMatch]_vars

\* ------------------------------------------------- analysis that may fail
\* Uploads of matching files by u2 and u3 against u1's bounty, the provider
\* free to answer, to answer nothing, to reject or to answer garbage.
NextAnalysis ==
  \E p \in Procs :
    \/ /\ nextReportId <= MaxReports
       /\ BeginUpload(p, {"u2", "u3"}, MatchingNames)
    \/ StepUpload(p)
    \/ StepAnalyze(p, ProviderOutcomes)
    \/ Respond(p)

SpecAnalysis == InitBounty /\ [][NextAnalysis]_vars

\* ------------------------------------------------------ bounty creation
\* Bounty requests by anyone against the database of InitDownload (u1 holds 20
\* credits, u2 5, u3 none), accepted while the bounties table holds fewer than
\* MaxBounties rows.
NextStake ==
  \E p \in Procs :
    \/ /\ Len(bounties) < MaxBounties
       /\ BeginBounty(p, Users)
    \/ StepBounty(p)
    \/ Respond(p)

SpecStake == InitDownload /\ [][NextStake]_vars

\* Bounty requests whose storage calls may reject.
NextStakeFault ==
  \E p \in Procs :
    \/ /\ Len(bounties) < MaxBounties
       /\ BeginBounty(p, Users)
    \/ StepBounty(p)
    \/ Fail(p)
    \/ Respond(p)

SpecStakeFault == InitDownload /\ [][NextStakeFault]_vars

\* ---------------------------------------------------- the report library
\* The database after u1 uploaded "m.pdf", u3 uploaded ".pdf" when reports were
\* stored without an analysis, and u2 took the signup bonus: u1 and u3 hold 10
\* credits each, u2 50.
InitLibrary ==
  /\ reports =
       {[id |-> 1, userId |-> "u1", propertyAddress |-> <<"m">>,
         fileHash |-> "hash1", analysis |-> "parsed", downloadCount |-> 0],
        [id |-> 2, userId |-> "u3", propertyAddress |-> UnknownAddress,
         fileHash |-> "hash2", analysis |-> "none", downloadCount |-> 0]}
  /\ nextReportId = 3
  /\ creditTransactions =
       << Tx("u1", UPLOAD_REWARD, "upload", 1, 0),
          Tx("u3", UPLOAD_REWARD, "upload", 2, 0),
          Tx("u2", SIGNUP_BONUS, "signup_bonus", 0, 0) >>
  /\ bounties = <<>>
  /\ downloads = <<>>
  /\ clock = 0
  /\ users = Users
  /\ proc = [p \in Procs |-> Idle]

\* Downloads, deletes and analysis reads by anyone; downloads are accepted
\* while the downloads table holds fewer than MaxDownloads rows.
NextLibrary ==
  \E p \in Procs :
    \/ /\ Len(downloads) < MaxDownloads
       /\ BeginDownload(p, Users)
    \/ BeginDelete(p, Users)
    \/ BeginAnalysis(p, Users)
    \/ StepDownload(p)
    \/ StepDelete(p)
    \/ StepAnalysis(p)
    \/ Respond(p)

SpecLibrary == InitLibrary /\ [][NextLibrary]_vars

\* ------------------------------------------- registration and the bonus
\* Registrations and signup-bonus requests over an empty database.  A
\* signup-bonus request carries the session of a user whose row exists (the
\* login route gives one to whoever presents the email and password of a row).
\* Requests are accepted while the ledger holds fewer than MaxLedger rows.
NextSignup ==
  \E p \in Procs :
    \/ /\ Len(creditTransactions) < MaxLedger
       /\ \/ BeginRegister(p, Users)
          \/ BeginSignup(p, users)
    \/ StepRegister(p)
    \/ StepSignup(p)
    \/ Respond(p)

SpecSignup == Init /\ [][NextSignup]_vars

\* ------------------------------------------- deleting and uploading again
\* One request at a time: uploads of one and the same file "M_a.pdf" by u2 and
\* u3, and deletes by them, against the open bounty of u1.  Uploads are
\* accepted while the reports serial has drawn fewer than MaxReports ids.
SameBytes == CHOOSE c \in Contents : TRUE

NextReupload ==
  \E p \in Procs :
    \/ /\ Quiescent
       /\ \/ /\ nextReportId <= MaxReports
             /\ \/ \E u \in {"u2", "u3"}, n \in MatchingNames :
                     UploadBegin(p, u, n, SameBytes)
                \/ \E u \in {"u2", "u3"} : UploadNoFile(p, u)
          \/ BeginDelete(p, {"u2", "u3"})
    \/ StepUpload(p)
    \/ StepAnalyze(p, SomeOutcomes)
    \/ StepDelete(p)
    \/ Respond(p)

SpecReupload == InitBounty /\ [][NextReupload]_vars

\* ------------------------------------------- two bounties for one address
\* The database after u2 and then u1 took the signup bonus and each staked the
\* minimum on a bounty for "M a": two open bounties, u2's first.
InitRival ==
  /\ reports = {}
  /\ nextReportId = 1
  /\ creditTransactions =
       << Tx("u2", SIGNUP_BONUS, "signup_bonus", 0, 0),
          Tx("u2", -MIN_BOUNTY_STAKE, "bounty_stake", 0, 1),
          Tx("u1", SIGNUP_BONUS, "signup_bonus", 0, 0),
          Tx("u1", -MIN_BOUNTY_STAKE, "bounty_stake", 0, 2) >>
  /\ bounties =
       << [userId |-> "u2", propertyAddress |-> <<"M", " ", "a">>,
           stakedCredits |-> MIN_BOUNTY_STAKE, status |-> "open",
           fulfilledByUserId |-> NoUser, fulfilledReportId |-> 0,
           fulfilledAt |-> 0],
          [userId |-> "u1", propertyAddress |-> <<"M", " ", "a">>,
           stakedCredits |-> MIN_BOUNTY_STAKE, status |-> "open",
           fulfilledByUserId |-> NoUser, fulfilledReportId |-> 0,
           fulfilledAt |-> 0] >>
  /\ downloads = <<>>
  /\ clock = 0
  /\ users = Users
  /\ proc = [p \in Procs |-> Idle]

\* Uploads of "M_a.pdf" by u2 and u3, one request at a time, accepted while the
\* reports serial has drawn fewer than MaxReports ids.
NextRival ==
  \E p \in Procs :
    \/ /\ Quiescent
       /\ nextReportId <= MaxReports
       /\ BeginUpload(p, {"u2", "u3"}, MatchingNames)
    \/ StepUpload(p)
    \/ StepAnalyze(p, SomeOutcomes)
    \/ Respond(p)

SpecRival == InitRival /\ [][NextRival]_vars

\* ------------------------------------------------------ the ledger alone
LedgerAmounts == {-5, 0, 10}
LedgerTypes == {"signup_bonus", "upload", "download", "bounty_stake", "bounty_earned"}

\* storage.createCreditTransaction called with any row: the store checks
\* neither the sign of the amount nor the type
RecordEntry(userId, amount, type) ==
  /\ Len(creditTransactions) < MaxEntries
  /\ createCreditTransaction(Tx(userId, amount, type, 0, 0))
  /\ UNCHANGED <<users, reports, nextReportId, bounties, downloads, clock, proc>>

NextLedger ==
  \E u \in SomeUsers, a \in LedgerAmounts, t \in LedgerTypes : RecordEntry(u, a, t)

SpecLedger == Init /\ [][NextLedger]_vars


\* ================================================================== claims
\* the rows of the ledger, by index
EntriesOf(u) == {i \in DOMAIN creditTransactions : creditTransactions[i].userId = u}

RECURSIVE SumOfIndices(_)
SumOfIndices(S) ==
  IF S = {} THEN 0
  ELSE LET i == CHOOSE j \in S : TRUE
       IN  creditTransactions[i].amount + SumOfIndices(S \ {i})

EntriesOfType(type) ==
  {i \in DOMAIN creditTransactions : creditTransactions[i].type = type}

\* C1: in every reachable state the balance the store computes for a user is the
\* sum of the amounts of that user's ledger rows, and 0 for a user without rows.
C1_BalanceIsLedgerSum ==
  \A u \in Users :
    /\ getCreditBalance(u) = SumOfIndices(EntriesOf(u))
    /\ EntriesOf(u) = {} => getCreditBalance(u) = 0

\* one user holds a credit and a debit, another holds rows too, a third none
C1_Witness ==
  \E u, v, w \in Users :
    /\ \E i, j \in EntriesOf(u) :
         creditTransactions[i].amount > 0 /\ creditTransactions[j].amount < 0
    /\ getCreditBalance(u) > 0
    /\ EntriesOf(v) # {} /\ v # u
    /\ EntriesOf(w) = {} /\ getCreditBalance(w) = 0

\* C2: for every ledger, rows of amount 0 and of any type included, the balance
\* is earned minus spent, earned being the sum of the positive amounts and spent
\* the sum of the absolute values of the negative ones.
C2_BalanceIsEarnedMinusSpent ==
  \A u \in Users :
    LET stats == getCreditStats(u)
        pos == {i \in EntriesOf(u) : creditTransactions[i].amount > 0}
        neg == {i \in EntriesOf(u) : creditTransactions[i].amount < 0}
    IN  /\ getCreditBalance(u) = stats.earned - stats.spent
        /\ stats.earned = SumOfIndices(pos)
        /\ stats.spent = -SumOfIndices(neg)

\* a user holding a credit, a debit and a row of amount 0
C2_Witness ==
  \E u \in Users : \E i, j, k \in EntriesOf(u) :
    /\ creditTransactions[i].amount > 0
    /\ creditTransactions[j].amount < 0
    /\ creditTransactions[k].amount = 0
    /\ getCreditStats(u).spent > 0

\* the download debits of a user, and the reports they were charged for
DownloadDebits(u) == EntriesOf(u) \cap EntriesOfType("download")
ChargedReports(u) == {creditTransactions[i].reportId : i \in DownloadDebits(u)}

\* C3: a user whose balance was b before their download requests is charged for
\* at most floor(b / DOWNLOAD_COST) of them, however the requests interleave
\* (stated here for distinct reports: a report charged twice counts once).
C3_ChargedDownloadsWithinBalance ==
  \A u \in Users :
    Cardinality(ChargedReports(u))
      <= SumOfIndices(EntriesOf(u) \ DownloadDebits(u)) \div DOWNLOAD_COST

ReportsWithHash(h) == {r \in reports : r.fileHash = h}
UploadEntries(reportId) ==
  {i \in EntriesOfType("upload") : creditTransactions[i].reportId = reportId}
Hashes == {sha256(c) : c \in Contents}

\* C4: uploads of the same bytes, by one user or several, one after the other or
\* interleaved, leave one report row with that hash and one upload reward linked
\* to it; the upload that loses created no report and earned no reward.
C4_OneReportPerFileHash ==
  /\ \A h \in Hashes :
       /\ Cardinality(ReportsWithHash(h)) <= 1
       /\ Cardinality(UNION {UploadEntries(r.id) : r \in ReportsWithHash(h)}) <= 1
  /\ \A r \in reports :
       (\A p \in Procs : ~(proc[p].pc = "rewardTx" /\ proc[p].reportId = r.id))
         => /\ Cardinality(UploadEntries(r.id)) = 1
            /\ \A i \in UploadEntries(r.id) :
                 creditTransactions[i] = Tx(r.userId, UPLOAD_REWARD, "upload", r.id, 0)
  /\ Cardinality(EntriesOfType("upload")) <= Cardinality(reports)
  /\ \A p \in Procs :
       (proc[p].op = "upload" /\ proc[p].pc = "done"
          /\ proc[p].result \in {"duplicate", "error500"})
         => proc[p].reportId = 0

\* two uploads of the same bytes by different users have both answered: one
\* created the report, the other lost at the unique constraint
C4_Witness ==
  \E p, q \in Procs :
    /\ proc[p].op = "upload" /\ proc[q].op = "upload"
    /\ proc[p].pc = "done" /\ proc[q].pc = "done"
    /\ proc[p].fileHash = proc[q].fileHash
    /\ proc[p].userId # proc[q].userId
    /\ proc[p].result = "ok" /\ proc[q].result = "error500"
    /\ Cardinality(ReportsWithHash(proc[p].fileHash)) = 1
    /\ Cardinality(UploadEntries(proc[p].reportId)) = 1

\* C5: at most one downloads row and at most one download debit for each
\* (userId, reportId), under every interleaving of download requests.
C5_OneDownloadPerUserReport ==
  \A u \in Users, r \in 1..nextReportId :
    /\ Cardinality({i \in DOMAIN downloads :
                      downloads[i].userId = u /\ downloads[i].reportId = r}) <= 1
    /\ Cardinality({i \in DownloadDebits(u) : creditTransactions[i].reportId = r}) <= 1

Earned(b) ==
  {i \in EntriesOfType("bounty_earned") : creditTransactions[i].bountyId = b}
StakeDebits(b) ==
  {i \in EntriesOfType("bounty_stake") :
     creditTransactions[i].bountyId = b /\ creditTransactions[i].amount < 0}
Refunds(b) ==
  {i \in EntriesOfType("bounty_stake") :
     creditTransactions[i].bountyId = b /\ creditTransactions[i].amount > 0}

\* C6: however many uploads by distinct users match an open bounty at once, one
\* of them fulfils it: the bounty_earned rows of one bounty never credit two
\* users (and so are never two).
C6_BountyFulfilledOnce ==
  \A b \in DOMAIN bounties :
    Cardinality({creditTransactions[i].userId : i \in Earned(b)}) <= 1

\* C7: a cancel and a fulfilling upload racing on one bounty have one winner:
\* never both a refund and a bounty_earned row, and the status the bounty ends
\* in is the winner's.
C7_CancelXorFulfill ==
  \A b \in DOMAIN bounties :
    /\ ~(Refunds(b) # {} /\ Earned(b) # {})
    /\ bounties[b].status = "cancelled" => Earned(b) = {}
    /\ bounties[b].status = "fulfilled" => Refunds(b) = {}

\* C8: with no request in flight, every bounty has one stake debit of its
\* requester, and one credit of the stake (a refund to the requester or a
\* bounty_earned row of the fulfiller) exactly when it is no longer open.
C8_StakeConserved ==
  Quiescent =>
    \A b \in DOMAIN bounties :
      LET row == bounties[b]
          credits == Refunds(b) \cup Earned(b)
      IN  /\ Cardinality(StakeDebits(b)) = 1
          /\ \A i \in StakeDebits(b) :
               /\ creditTransactions[i].amount = -row.stakedCredits
               /\ creditTransactions[i].userId = row.userId
          /\ row.status = "open" => credits = {}
          /\ row.status # "open" =>
               /\ Cardinality(credits) = 1
               /\ \A i \in credits : creditTransactions[i].amount = row.stakedCredits
               /\ \A i \in Refunds(b) : creditTransactions[i].userId = row.userId
               /\ \A i \in Earned(b) : creditTransactions[i].userId = row.fulfilledByUserId
          /\ SumOfIndices(StakeDebits(b) \cup credits)
               = IF row.status = "open" THEN -row.stakedCredits ELSE 0

FulfilmentFieldsMatchStatus(row) ==
  /\ row.fulfilledByUserId # NoUser <=> row.status = "fulfilled"
  /\ row.fulfilledReportId # 0 <=> row.status = "fulfilled"
  /\ row.fulfilledAt # 0 <=> row.status = "fulfilled"

\* C9: a bounty that is fulfilled or cancelled is never changed again, and its
\* three fulfilment fields are set exactly when its status is fulfilled.
C9_TerminalStatusIsFinal ==
  [][\A b \in DOMAIN bounties :
       /\ bounties[b].status # "open" => bounties'[b] = bounties[b]
       /\ FulfilmentFieldsMatchStatus(bounties'[b])]_vars

\* C10: when an upload request has answered, with or without a storage failure
\* on the way, the report it created exists exactly when its upload reward of
\* +UPLOAD_REWARD for the owner exists.
C10_ReportIffReward ==
  \A p \in Procs :
    (proc[p].op = "upload" /\ proc[p].pc = "done") =>
      ((\E r \in reports : r.id = proc[p].reportId /\ r.userId = proc[p].userId)
        <=> (\E i \in DOMAIN creditTransactions :
               /\ proc[p].reportId # 0
               /\ creditTransactions[i] =
                    Tx(proc[p].userId, UPLOAD_REWARD, "upload", proc[p].reportId, 0)))

\* the downloads rows and the download debits of a user for a report
DownloadRows(u, r) ==
  {i \in DOMAIN downloads : downloads[i].userId = u /\ downloads[i].reportId = r}
DebitsFor(u, r) == {i \in DownloadDebits(u) : creditTransactions[i].reportId = r}
InFlight(p) == proc[p].pc \notin {"idle", "done"}

\* C11: once the download requests have answered, with or without a rejected
\* storage call on the way, a charged download has left all three of its effects
\* or none: as many downloads rows as debits for each user and report, and a
\* downloadCount equal to the number of rows of the report.
C11_ChargedDownloadAtomic ==
  (\A p \in Procs : ~InFlight(p)) =>
    /\ \A u \in Users, r \in 1..nextReportId :
         Cardinality(DownloadRows(u, r)) = Cardinality(DebitsFor(u, r))
    /\ \A rep \in reports :
         rep.downloadCount =
           Cardinality({i \in DOMAIN downloads : downloads[i].reportId = rep.id})

\* C12: once the upload requests have answered, with or without a rejected
\* storage call on the way, a bounty is fulfilled exactly when a bounty_earned
\* row of its stake, linked to it, credits the user recorded as its fulfiller.
C12_FulfilledIffEarned ==
  (\A p \in Procs : ~InFlight(p)) =>
    \A b \in DOMAIN bounties :
      bounties[b].status = "fulfilled"
        <=> \E i \in Earned(b) :
              /\ creditTransactions[i].amount = bounties[b].stakedCredits
              /\ creditTransactions[i].userId = bounties[b].fulfilledByUserId

\* C13: an upload whose report and reward are written answers success and
\* keeps both, whatever happens in the bounty steps that follow.
C13_BountyFailureKeepsUploadSuccess ==
  \A p \in Procs :
    (proc[p].op = "upload" /\ proc[p].pc = "done"
       /\ UploadEntries(proc[p].reportId) # {})
      => /\ proc[p].result = "ok"
         /\ \E r \in reports : r.id = proc[p].reportId

\* C14: the ledger only grows: every step of every operation keeps each row
\* that was there, at its place and with its fields as they were.
C14_LedgerAppendOnly ==
  [][/\ Len(creditTransactions') >= Len(creditTransactions)
     /\ \A i \in DOMAIN creditTransactions :
          creditTransactions'[i] = creditTransactions[i]]_vars

\* a report has been deleted by its owner after its reward was recorded, and
\* the ledger, two rows long, still holds that reward
C14_Witness ==
  \E p \in Procs :
    /\ proc[p].op = "delete" /\ proc[p].pc = "done" /\ proc[p].result = "ok"
    /\ getReport(proc[p].reportId) = {}
    /\ UploadEntries(proc[p].reportId) # {}
    /\ Len(creditTransactions) >= 2

Owns(u, r) == \E rep \in reports : rep.id = r /\ rep.userId = u
StoreUnchanged ==
  UNCHANGED <<users, reports, nextReportId, creditTransactions, bounties, downloads>>

\* C15: every step of a download request made by the report's owner, or by a
\* user who holds a downloads row for it, leaves the tables as they are (no row,
\* no ledger entry, no count, the same balance), and the request answers
\* success without reaching the balance check.
C15_OwnerOrRepeatDownloadChangesNothing ==
  [][\A p \in Procs :
       (/\ proc'[p] # proc[p]
        /\ proc[p].op = "download"
        /\ proc[p].pc \in {"getReport", "hasUserDownloaded"}
        /\ \/ Owns(proc[p].userId, proc[p].reportId)
           \/ DownloadRows(proc[p].userId, proc[p].reportId) # {})
       => /\ StoreUnchanged
          /\ proc'[p].pc \in {"hasUserDownloaded", "done"}
          /\ proc'[p].pc = "done" =>
               proc'[p].result \in {"owner", "already_downloaded"}]_vars

\* a repeated download and an owner's download have both answered success, each
\* for a user whose balance is below the cost, the repeat charged once
C15_Witness ==
  \E p, q \in Procs :
    /\ proc[p].op = "download" /\ proc[p].pc = "done"
    /\ proc[p].result = "already_downloaded"
    /\ getCreditBalance(proc[p].userId) < DOWNLOAD_COST
    /\ Cardinality(DownloadRows(proc[p].userId, proc[p].reportId)) = 1
    /\ Cardinality(DebitsFor(proc[p].userId, proc[p].reportId)) = 1
    /\ proc[q].op = "download" /\ proc[q].pc = "done" /\ proc[q].result = "owner"
    /\ getCreditBalance(proc[q].userId) < DOWNLOAD_COST
    /\ DownloadRows(proc[q].userId, proc[q].reportId) = {}

\* C16: every step of a download request by a user who neither owns the report
\* nor holds a downloads row for it, and whose balance is below DOWNLOAD_COST,
\* leaves the tables as they are, and the request answers insufficient credits.
C16_InsufficientDownloadChangesNothing ==
  [][\A p \in Procs :
       (/\ proc'[p] # proc[p]
        /\ proc[p].op = "download"
        /\ proc[p].pc \in {"getReport", "hasUserDownloaded", "getCreditBalance"}
        /\ getReport(proc[p].reportId) # {}
        /\ ~Owns(proc[p].userId, proc[p].reportId)
        /\ DownloadRows(proc[p].userId, proc[p].reportId) = {}
        /\ SumOfIndices(EntriesOf(proc[p].userId)) < DOWNLOAD_COST)
       => /\ StoreUnchanged
          /\ proc'[p].pc \in {"hasUserDownloaded", "getCreditBalance", "done"}
          /\ proc'[p].pc = "done" => proc'[p].result = "insufficient"]_vars

\* a user with ledger rows and no credits left was refused a report of another
\* user: no downloads row, no debit, the count still 0
C16_Witness ==
  \E p \in Procs :
    /\ proc[p].op = "download" /\ proc[p].pc = "done"
    /\ proc[p].result = "insufficient"
    /\ EntriesOf(proc[p].userId) # {}
    /\ getCreditBalance(proc[p].userId) < DOWNLOAD_COST
    /\ ~Owns(proc[p].userId, proc[p].reportId)
    /\ DownloadRows(proc[p].userId, proc[p].reportId) = {}
    /\ DebitsFor(proc[p].userId, proc[p].reportId) = {}
    /\ \E rep \in reports : rep.id = proc[p].reportId /\ rep.downloadCount = 0

\* C17: with one request at a time, a requester's cancel of their open bounty
\* sets it cancelled and appends one refund of the stake, which is then the only
\* refund of the bounty and raises the balance by the stake; a cancel of a
\* bounty that is not open answers not-open and writes nothing.
C17_CancelRefundsOnce ==
  [][\A p \in Procs :
       (proc'[p] # proc[p] /\ proc[p].op = "cancel"
          /\ proc[p].bountyId \in DOMAIN bounties
          /\ bounties[proc[p].bountyId].userId = proc[p].userId)
       => LET b == proc[p].bountyId
              u == proc[p].userId
              s == bounties[b].stakedCredits
          IN  /\ (proc[p].pc = "getBounty" /\ bounties[b].status # "open") =>
                   /\ proc'[p].pc = "done" /\ proc'[p].result = "not_open"
                   /\ StoreUnchanged
              /\ (proc[p].pc = "getBounty" /\ bounties[b].status = "open") =>
                   /\ proc'[p].pc = "cancelBounty"
                   /\ StoreUnchanged
              /\ proc[p].pc = "cancelBounty" =>
                   /\ bounties'[b].status = "cancelled"
                   /\ UNCHANGED creditTransactions
              /\ proc[p].pc = "refundTx" =>
                   /\ creditTransactions' =
                        Append(creditTransactions, Tx(u, s, "bounty_stake", 0, b))
                   /\ getCreditBalance(u)' = getCreditBalance(u) + s
                   /\ Cardinality(Refunds(b))' = 1
                   /\ bounties'[b].status = "cancelled"
                   /\ proc'[p].pc = "done" /\ proc'[p].result = "ok"]_vars

\* the requester's second cancel of a bounty has answered not-open: the bounty
\* is cancelled and its stake debit and single refund cancel out
C17_Witness ==
  \E p \in Procs :
    /\ proc[p].op = "cancel" /\ proc[p].pc = "done" /\ proc[p].result = "not_open"
    /\ proc[p].bountyId \in DOMAIN bounties
    /\ bounties[proc[p].bountyId].status = "cancelled"
    /\ Cardinality(Refunds(proc[p].bountyId)) = 1
    /\ Cardinality(StakeDebits(proc[p].bountyId)) = 1
    /\ SumOfIndices(Refunds(proc[p].bountyId) \cup StakeDebits(proc[p].bountyId)) = 0
    /\ getCreditBalance(proc[p].userId) = SIGNUP_BONUS

\* C18: no bounty is fulfilled by its requester: no bounty row names its
\* requester as fulfiller, no bounty_earned row credits the requester of its
\* bounty, and no upload goes on to fulfil a bounty of its own user.
C18_NoSelfFulfilment ==
  /\ \A b \in DOMAIN bounties :
       /\ bounties[b].fulfilledByUserId # bounties[b].userId
       /\ \A i \in Earned(b) : creditTransactions[i].userId # bounties[b].userId
  /\ \A p \in Procs :
       (proc[p].op = "upload" /\ proc[p].bountyId # 0)
         => bounties[proc[p].bountyId].userId # proc[p].userId

\* the requester's upload of a file whose address matches their own open bounty
\* has answered success, rewarded for the report; the bounty is still open and
\* has no bounty_earned row
C18_Witness ==
  \E p \in Procs, b \in DOMAIN bounties :
    /\ proc[p].op = "upload" /\ proc[p].pc = "done" /\ proc[p].result = "ok"
    /\ proc[p].userId = bounties[b].userId
    /\ ilike(bounties[b].propertyAddress, proc[p].address)
    /\ UploadEntries(proc[p].reportId) # {}
    /\ bounties[b].status = "open"
    /\ Earned(b) = {}

\* the two addresses match when, ignoring case, either is within the other
AddressesMatch(requested, uploaded) ==
  \/ IsSubstring(Lower(requested), Lower(uploaded))
  \/ IsSubstring(Lower(uploaded), Lower(requested))

\* the open bounties of other users that match, either way, the upload of p
OpenMatches(p) ==
  {b \in DOMAIN bounties :
     /\ bounties[b].status = "open"
     /\ bounties[b].userId # proc[p].userId
     /\ AddressesMatch(bounties[b].propertyAddress, proc[p].address)}

\* C19: an upload whose address contains, or is contained in, ignoring case, the
\* address of another user's open bounty goes on to fulfil such a bounty, and
\* its bounty_earned row credits the uploader the stake on top of the reward.
C19_SubstringMatchEitherWay ==
  [][\A p \in Procs :
       (proc'[p] # proc[p] /\ proc[p].op = "upload")
       => /\ (proc[p].pc = "getBountyByAddress" /\ OpenMatches(p) # {}) =>
               /\ proc'[p].pc = "fulfillBounty"
               /\ proc'[p].bountyId \in OpenMatches(p)
          /\ (proc[p].pc = "bountyTx" /\ proc'[p].pc = "done") =>
               /\ UploadEntries(proc[p].reportId) # {}
               /\ creditTransactions' =
                    Append(creditTransactions,
                           Tx(proc[p].userId, bounties[proc[p].bountyId].stakedCredits,
                              "bounty_earned", proc[p].reportId, proc[p].bountyId))]_vars

ProviderFailed(p) == proc[p].provider \in {"throws", "unparsable"}

\* C20: whatever the provider does, the upload goes on: a failed provider
\* yields the one fallback object, no upload answers an error on account of the
\* analysis, and an upload past its reward step has its report, carrying the
\* analysis, and one reward of +UPLOAD_REWARD for it.
C20_RewardIndependentOfAnalysis ==
  \A p \in Procs :
    proc[p].op = "upload" =>
      /\ (ProviderFailed(p) /\ proc[p].pc # "analyzeReport")
           => proc[p].analysis = "fallback"
      /\ (proc[p].pc = "done" /\ proc[p].result = "error500")
           => ReportsWithHash(proc[p].fileHash) # {}
      /\ (\/ proc[p].pc \in {"getBountyByAddress", "fulfillBounty", "bountyTx"}
          \/ proc[p].pc = "done" /\ proc[p].result = "ok")
           => /\ \E r \in reports :
                   /\ r.id = proc[p].reportId /\ r.userId = proc[p].userId
                   /\ r.analysis = proc[p].analysis
              /\ Cardinality(UploadEntries(proc[p].reportId)) = 1
              /\ \A i \in UploadEntries(proc[p].reportId) :
                   creditTransactions[i] =
                     Tx(proc[p].userId, UPLOAD_REWARD, "upload", proc[p].reportId, 0)

\* two uploads have answered success, the provider having rejected one request
\* and answered garbage to the other: both reports carry the fallback analysis
\* and each has its reward
C20_Witness ==
  \E p, q \in Procs :
    /\ proc[p].op = "upload" /\ proc[p].pc = "done" /\ proc[p].result = "ok"
    /\ proc[q].op = "upload" /\ proc[q].pc = "done" /\ proc[q].result = "ok"
    /\ proc[p].provider = "throws" /\ proc[q].provider = "unparsable"
    /\ \A x \in {p, q} :
         /\ \E r \in reports : r.id = proc[x].reportId /\ r.analysis = "fallback"
         /\ Cardinality(UploadEntries(proc[x].reportId)) = 1

Balance(u) == SumOfIndices(EntriesOf(u))

\* C21: the stake of a bounty request is the larger of MIN_BOUNTY_STAKE and the
\* requested amount; a request whose user holds less answers insufficient
\* credits and writes nothing; otherwise it appends one open bounty of that
\* stake and then one bounty_stake row of minus the stake linked to it, the only
\* debit of that bounty, which lowers the balance by the stake; and no bounty
\* row has a stake below MIN_BOUNTY_STAKE.
C21_BountyDebitsStake ==
  [][/\ \A x \in StakeInputs :
          stakeAmountOf(x) = IF x > MIN_BOUNTY_STAKE THEN x ELSE MIN_BOUNTY_STAKE
     /\ \A b \in DOMAIN bounties' : bounties'[b].stakedCredits >= MIN_BOUNTY_STAKE
     /\ \A p \in Procs :
          (proc'[p] # proc[p] /\ proc[p].op = "bounty" /\ proc[p].pc # "done")
          => LET u == proc[p].userId
                 s == proc[p].amount
                 b == proc[p].bountyId
             IN  /\ (proc[p].pc = "getCreditBalance" /\ Balance(u) < s) =>
                      /\ proc'[p].pc = "done" /\ proc'[p].result = "insufficient"
                      /\ StoreUnchanged
                 /\ (proc[p].pc = "getCreditBalance" /\ Balance(u) >= s) =>
                      /\ proc'[p].pc = "createBounty"
                      /\ StoreUnchanged
                 /\ proc[p].pc = "createBounty" =>
                      /\ Len(bounties') = Len(bounties) + 1
                      /\ proc'[p].bountyId = Len(bounties')
                      /\ bounties'[Len(bounties')].userId = u
                      /\ bounties'[Len(bounties')].stakedCredits = s
                      /\ bounties'[Len(bounties')].status = "open"
                      /\ \A i \in DOMAIN bounties : bounties'[i] = bounties[i]
                      /\ UNCHANGED creditTransactions
                 /\ proc[p].pc = "stakeTx" =>
                      /\ creditTransactions' =
                           Append(creditTransactions,
                                  Tx(u, -bounties[b].stakedCredits, "bounty_stake", 0, b))
                      /\ Balance(u)' = Balance(u) - bounties[b].stakedCredits
                      /\ Cardinality(StakeDebits(b))' = 1
                      /\ UNCHANGED bounties
                      /\ proc'[p].pc = "done" /\ proc'[p].result = "ok"]_vars

\* one request has staked its user's last credits on a new open bounty, debited
\* once, and another, by a user without credits, was refused
C21_Witness ==
  \E p, q \in Procs :
    /\ proc[p].op = "bounty" /\ proc[p].pc = "done" /\ proc[p].result = "ok"
    /\ bounties[proc[p].bountyId].status = "open"
    /\ bounties[proc[p].bountyId].stakedCredits = MIN_BOUNTY_STAKE
    /\ Cardinality(StakeDebits(proc[p].bountyId)) = 1
    /\ Balance(proc[p].userId) = 0
    /\ proc[q].op = "bounty" /\ proc[q].pc = "done"
    /\ proc[q].result = "insufficient"
    /\ Balance(proc[q].userId) < MIN_BOUNTY_STAKE

\* C22: a cancel request for a bounty of another user answers not authorized,
\* and no step of such a request changes any row: the bounty keeps its status
\* and the ledger of every user stays as it was.
C22_CancelByOtherUserRejected ==
  [][\A p \in Procs :
       (/\ proc'[p] # proc[p]
        /\ proc[p].op = "cancel" /\ proc[p].pc # "done"
        /\ proc[p].bountyId \in DOMAIN bounties
        /\ bounties[proc[p].bountyId].userId # proc[p].userId)
       => /\ proc[p].pc = "getBounty"
          /\ proc'[p].pc = "done" /\ proc'[p].result = "not_authorized"
          /\ bounties'[proc[p].bountyId].status = bounties[proc[p].bountyId].status
          /\ \A u \in Users : EntriesOf(u)' = EntriesOf(u)
          /\ StoreUnchanged]_vars

\* a user other than the requester was refused the cancel of an open bounty,
\* which is still open and has no refund
C22_Witness ==
  \E p \in Procs :
    /\ proc[p].op = "cancel" /\ proc[p].pc = "done"
    /\ proc[p].result = "not_authorized"
    /\ proc[p].bountyId \in DOMAIN bounties
    /\ bounties[proc[p].bountyId].userId # proc[p].userId
    /\ bounties[proc[p].bountyId].status = "open"
    /\ Refunds(proc[p].bountyId) = {}

ReportIds == {rep.id : rep \in reports}
Exists(r) == r \in ReportIds

\* C23: a delete request by a user who does not own the report answers not
\* authorized, writes nothing and never reaches the delete; the owner's delete
\* removes that report row and no other, and leaves every ledger row, every
\* balance, every bounty and every Download row as it was.
C23_DeleteOwnerOnlyReportOnly ==
  [][\A p \in Procs :
       (proc'[p] # proc[p] /\ proc[p].op = "delete" /\ proc[p].pc # "done")
       => LET u == proc[p].userId
              r == proc[p].reportId
          IN  /\ (Exists(r) /\ ~Owns(u, r)) =>
                   /\ proc[p].pc = "getReport"
                   /\ proc'[p].pc = "done" /\ proc'[p].result = "not_authorized"
                   /\ StoreUnchanged
              /\ proc[p].pc = "getReport" => StoreUnchanged
              /\ proc[p].pc = "deleteReport" =>
                   /\ ReportIds' = ReportIds \ {r}
                   /\ \A rep \in reports : rep.id # r => rep \in reports'
                   /\ UNCHANGED <<users, creditTransactions, bounties, downloads>>
                   /\ \A v \in Users : Balance(v)' = Balance(v)
                   /\ proc'[p].pc = "done" /\ proc'[p].result = "ok"]_vars

\* the owner has deleted a downloaded report: its row is gone, the other report
\* is there, and its Download row, its download debit and its upload reward
\* are still recorded; another user was refused the delete of the other report
C23_Witness ==
  \E p, q \in Procs :
    /\ proc[p].op = "delete" /\ proc[p].pc = "done" /\ proc[p].result = "ok"
    /\ ~Exists(proc[p].reportId)
    /\ reports # {}
    /\ \E i \in DOMAIN downloads : downloads[i].reportId = proc[p].reportId
    /\ \E i \in EntriesOfType("download") :
         creditTransactions[i].reportId = proc[p].reportId
    /\ UploadEntries(proc[p].reportId) # {}
    /\ proc[q].op = "delete" /\ proc[q].pc = "done"
    /\ proc[q].result = "not_authorized"
    /\ Exists(proc[q].reportId) /\ ~Owns(proc[q].userId, proc[q].reportId)

\* C24: the analysis request reads the report and records whether the session
\* user owns it; it answers with the stored analysis only when that user owns
\* the report or has a Download row for it, answers access denied to every
\* other user, and writes nothing.
C24_AnalysisOnlyForOwnerOrDownloader ==
  [][\A p \in Procs :
       (proc'[p] # proc[p] /\ proc[p].op = "analysis" /\ proc[p].pc # "done")
       => LET u == proc[p].userId
              r == proc[p].reportId
          IN  /\ StoreUnchanged
              /\ (proc[p].pc = "getReport" /\ Exists(r)) =>
                   /\ proc'[p].owns = Owns(u, r)
                   /\ \E rep \in reports :
                        rep.id = r /\ proc'[p].analysis = rep.analysis
              /\ (proc[p].pc = "getReport" /\ ~Exists(r)) =>
                   proc'[p].result = "not_found"
              /\ proc[p].pc = "hasUserDownloaded" =>
                   /\ proc'[p].pc = "done"
                   /\ IF proc[p].owns \/ DownloadRows(u, r) # {}
                      THEN proc'[p].result =
                             IF proc[p].analysis = "none" THEN "no_analysis"
                                                          ELSE "analysis"
                      ELSE proc'[p].result = "access_denied"]_vars

\* a user who paid for the report is answered with its analysis while another
\* user, neither owner nor downloader, is denied
C24_Witness ==
  \E p, q \in Procs :
    /\ proc[p].op = "analysis" /\ proc[p].pc = "done"
    /\ proc[p].result = "analysis"
    /\ ~Owns(proc[p].userId, proc[p].reportId)
    /\ DownloadRows(proc[p].userId, proc[p].reportId) # {}
    /\ proc[q].op = "analysis" /\ proc[q].pc = "done"
    /\ proc[q].result = "access_denied"
    /\ proc[q].reportId = proc[p].reportId
    /\ ~Owns(proc[q].userId, proc[q].reportId)
    /\ DownloadRows(proc[q].userId, proc[q].reportId) = {}

RowsOfReport(r) == {i \in DOMAIN downloads : downloads[i].reportId = r}
DebitsOfReport(r) ==
  {i \in EntriesOfType("download") : creditTransactions[i].reportId = r}

\* C29: the downloadCount of a report that stays never decreases, and with no
\* request in flight it is the number of Download rows of the report, which is
\* the number of download debits linked to it; each of those rows records
\* DOWNLOAD_COST credits spent and each debit is of -DOWNLOAD_COST.
C29_DownloadCountCountsDownloads ==
  [][/\ \A rep \in reports, rep2 \in reports' :
          rep2.id = rep.id => rep2.downloadCount >= rep.downloadCount
     /\ Quiescent' =>
          \A rep \in reports' :
            /\ rep.downloadCount = Cardinality(RowsOfReport(rep.id))'
            /\ Cardinality(RowsOfReport(rep.id))' = Cardinality(DebitsOfReport(rep.id))'
            /\ \A i \in RowsOfReport(rep.id)' :
                 downloads'[i].creditSpent = DOWNLOAD_COST
            /\ \A i \in DebitsOfReport(rep.id)' :
                 creditTransactions'[i].amount = -DOWNLOAD_COST]_vars

\* with no request in flight, a report stands at two downloads, with two
\* Download rows and two debits
C29_Witness ==
  /\ Quiescent
  /\ \E rep \in reports :
       /\ rep.downloadCount = 2
       /\ Cardinality(RowsOfReport(rep.id)) = 2
       /\ Cardinality(DebitsOfReport(rep.id)) = 2

\* C25: the ledger rows of every user sum to at least zero in every state,
\* whatever the interleaving of that user's requests.
C25_BalanceNeverNegative == \A u \in Users : Balance(u) >= 0

\* C30: once no bounty request is in flight, every bounty row has a bounty_stake
\* row of its requester, of minus its stake, linked to it, and every such debit
\* is linked to a bounty row: no bounty stands whose stake was never debited.
C30_BountyAndDebitTogether ==
  (\A p \in Procs : ~InFlight(p)) =>
    /\ \A b \in DOMAIN bounties :
         \E i \in StakeDebits(b) :
           /\ creditTransactions[i].userId = bounties[b].userId
           /\ creditTransactions[i].amount = -bounties[b].stakedCredits
    /\ \A i \in EntriesOfType("bounty_stake") :
         creditTransactions[i].bountyId \in DOMAIN bounties

SignupBonuses(u) == EntriesOf(u) \cap EntriesOfType("signup_bonus")

\* C26: in every state each user has at most one ledger row of type
\* signup_bonus, whatever the interleaving of registrations and signup-bonus
\* requests.
C26_SignupBonusAtMostOnce == \A u \in Users : Cardinality(SignupBonuses(u)) <= 1

\* C27: when every upload carries the same bytes, the ledger never holds more
\* than one upload reward, and the reports serial has never given out more than
\* one id, however uploads and owner deletes follow one another.
C27_SameBytesRewardedOnce ==
  /\ Cardinality(EntriesOfType("upload")) <= 1
  /\ nextReportId <= 2

FulfilledBy(r) ==
  {b \in DOMAIN bounties :
     bounties[b].status = "fulfilled" /\ bounties[b].fulfilledReportId = r}

\* C28: with one request at a time, an upload that comes to its bounty check
\* while an open bounty of another user matches its address goes on to fulfil
\* such a bounty, also when an open bounty of the uploader matches too; and no
\* report fulfils two bounties.
C28_OtherUsersBountyFulfilled ==
  [][/\ \A p \in Procs :
          (/\ proc'[p] # proc[p]
           /\ proc[p].op = "upload" /\ proc[p].pc = "getBountyByAddress"
           /\ OpenMatches(p) # {})
          => /\ proc'[p].pc = "fulfillBounty"
             /\ proc'[p].bountyId \in OpenMatches(p)
     /\ \A r \in 1..nextReportId : Cardinality(FulfilledBy(r))' <= 1]_vars

====
